---- MODULE Spec2Model ----
(***************************************************************************)
(* Model of kindelia_ws_events (src/kindelia_ws_events/src/lib.rs): a      *)
(* websocket server that fans the events of one tokio broadcast channel    *)
(* out to its clients, each client filtering by the tags of its query.     *)
(*                                                                         *)
(* One session is one run of client_connection.  Its await points          *)
(* (ws_rx.recv() and client_ws_sender.send()) are the places where other   *)
(* sessions and the producer interleave, so each is one action.            *)
(***************************************************************************)
EXTENDS Integers, Sequences, FiniteSets, TLC

VARIABLES
  published,      \* history: the kind of every event the producer sent, in order
  chan,           \* the channel: ids of the events it accepted, by position
  producerAlive,  \* the producer still holds its broadcast::Sender
  pc,             \* per session: where client_connection is
  tags,           \* per session: the Vec<String> handed to client_connection
  rxNext,         \* per session: position of ws_rx in the channel
  count,          \* per session: the local `count`
  cur,            \* per session: the event being sent (0 = none)
  clientUp,       \* per session: the peer is still connected
  query,          \* history: the QueryParams the connection came with
  subAt,          \* history: how many events had been sent when ws_rx subscribed
  recvd,          \* history: ids of the events recv() returned Ok, in order
  attempts,       \* history: the sends, in order: [id, kind, ok, up]
  lagged,         \* history: recv() returned Err(Lagged)
  cachedRun       \* per session: the same run with the filter parsed once and kept

vars == <<published, chan, producerAlive, pc, tags, rxNext, count, cur, clientUp,
          query, subAt, recvd, attempts, lagged, cachedRun>>

-----------------------------------------------------------------------------
(* Bounds of the model *)

MaxSessions == 2      \* connections the listener accepts
MaxPublish == 3       \* events the producer sends
MaxQueryLen == 2      \* characters of a tags query value
BufCap == 1           \* events the broadcast channel retains
MaxLongPublish == 11  \* events the producer sends in the long run of one session

(* Program constant: `if count == 10 { break; }` *)
MaxFails == 10

Sessions == 1..MaxSessions

\* The variants of the event enum T (its discriminants have the same names).
Kinds == {"A", "B"}

\* The characters a query value is made of.
Chars == {"A", ","}

-----------------------------------------------------------------------------
(* Strings are sequences of characters. *)

StringsUpTo(n) == UNION {[1..k -> Chars] : k \in 0..n}

\* QueryParams { tags: Option<String> }
NoTags == [some |-> FALSE, val |-> <<>>]
SomeTags(str) == [some |-> TRUE, val |-> str]
QueryParams == {NoTags} \cup {SomeTags(str) : str \in StringsUpTo(MaxQueryLen)}

\* str::split(','): the pieces between the commas; n commas give n+1
\* pieces, so the empty string gives one empty piece.
RECURSIVE SplitFrom(_, _, _, _)
SplitFrom(str, i, piece, done) ==
  IF i > Len(str) THEN Append(done, piece)
  ELSE IF str[i] = "," THEN SplitFrom(str, i + 1, <<>>, Append(done, piece))
  ELSE SplitFrom(str, i + 1, Append(piece, str[i]), done)

split(str) == SplitFrom(str, 1, <<>>, <<>>)

\* fn parse_query(query: QueryParams) -> Query
parse_query(qp) ==
  IF qp.some THEN split(qp.val) ELSE <<>>

-----------------------------------------------------------------------------
(* The Discriminant of the event type and the filter *)

Err == [ok |-> FALSE, val |-> <<>>]
Ok(v) == [ok |-> TRUE, val |-> v]

\* T::Discriminant::from_str: the name of a variant parses to it, any other
\* string is an error.
from_str(tag) ==
  IF Len(tag) = 1 /\ tag[1] \in Kinds THEN Ok(tag[1]) ELSE Err

\* A collect that drops the tags that do not parse (filter_map) instead of
\* failing on the first of them.
RECURSIVE ValidOnly(_)
ValidOnly(tagv) ==
  IF tagv = <<>> THEN <<>>
  ELSE IF from_str(Head(tagv)).ok
       THEN <<from_str(Head(tagv)).val>> \o ValidOnly(Tail(tagv))
       ELSE ValidOnly(Tail(tagv))

collect_valid(tagv) == Ok(ValidOnly(tagv))

\* tags.iter().map(from_str).collect::<Result<Vec<_>, String>>()
collect_tags(tagv) ==
  IF \E i \in 1..Len(tagv) : ~from_str(tagv[i]).ok THEN Err
  ELSE Ok([i \in 1..Len(tagv) |-> from_str(tagv[i]).val])

\* event.clone().into(): the discriminant of an event
Discriminant(e) == e.kind

\* A test that sends whatever arrives.
admits_all(filter, e) == TRUE

\* A test without the is_empty() case.
admits_listed(filter, e) ==
  \E i \in 1..Len(filter) : filter[i] = Discriminant(e)

\* A test with the contains() negated.
admits_negated(filter, e) ==
  Len(filter) = 0 \/ ~\E i \in 1..Len(filter) : filter[i] = Discriminant(e)

\* tags.is_empty() || tags.contains(&(event.clone().into()))
admits(filter, e) ==
  Len(filter) = 0 \/ \E i \in 1..Len(filter) : filter[i] = Discriminant(e)

\* `count == 9` for `count == 10`.
threshold_early(c) == c = MaxFails - 1

\* `count > 10` for `count == 10`.
threshold_late(c) == c > MaxFails

\* if count == 10 { break; }
threshold(c) == c = MaxFails

-----------------------------------------------------------------------------
(* The broadcast channel (tokio::sync::broadcast) *)

ChanTail == Len(chan)

\* The event the producer sent as its i-th.
Event(i) == [id |-> i, kind |-> published[i]]

Running == {"recv", "send", "closing"}

\* Senders alive: the producer's, the clone the route's with_rx filter
\* keeps for as long as the server runs, and the clone every running
\* session owns as its ws_tx argument.
SenderCount ==
  (IF producerAlive THEN 1 ELSE 0) + 1
    + Cardinality({s \in Sessions : pc[s] \in Running})

\* Receivers alive: the ws_rx of every running session.
ReceiverCount == Cardinality({s \in Sessions : pc[s] \in Running})

\* ws_rx.recv(): the next event, or Lagged when the channel has overwritten
\* it, or Closed when nothing is left and no Sender is, or pending.
recv(s) ==
  IF rxNext[s] < ChanTail - BufCap THEN [tag |-> "Lagged", ev |-> 0]
  ELSE IF rxNext[s] < ChanTail THEN [tag |-> "Ok", ev |-> chan[rxNext[s] + 1]]
  ELSE IF SenderCount = 0 THEN [tag |-> "Closed", ev |-> 0]
  ELSE [tag |-> "Pending", ev |-> 0]

\* A subscribe that starts at the oldest event the channel retains.
subscribe_oldest == IF ChanTail > BufCap THEN ChanTail - BufCap ELSE 0

\* ws_tx.subscribe(): the receiver starts at the next event to be sent.
subscribe == ChanTail

\* A receiver that stays on the event it returned.
rx_after_stay(s, r) ==
  IF r.tag = "Lagged" THEN ChanTail - BufCap ELSE rxNext[s]

\* The position of ws_rx after recv() returned r.
rx_after(s, r) ==
  IF r.tag = "Ok" THEN rxNext[s] + 1
  ELSE IF r.tag = "Lagged" THEN ChanTail - BufCap
  ELSE rxNext[s]

\* A loop that goes on after Err(Lagged) and ends on Err(Closed) only.
on_recv_err_skip_lag(r) == IF r.tag = "Lagged" THEN "recv" ELSE "closing"

\* `while let Ok(event) = ws_rx.recv().await`: any Err ends the loop.
on_recv_err(r) == "closing"

\* A loop body whose `else { break; }` hangs on the inner if.
on_event_break(tagv, e) ==
  LET f == collect_tags(tagv) IN
    IF ~f.ok THEN "closing"
    ELSE IF admits(f.val, e) THEN "send"
    ELSE "closing"

\* The loop body up to the send: where the session goes with event e.
on_event(tagv, e) ==
  LET f == collect_tags(tagv) IN
    IF ~f.ok THEN "closing"
    ELSE IF admits(f.val, e) THEN "send"
    ELSE "recv"

\* `count = 1` for `count += 1`.
count_after_set(c, ok) == IF ok THEN 0 ELSE 1

\* A count of all failures: no reset on Ok.
count_after_total(c, ok) == IF ok THEN c ELSE c + 1

\* count += 1 on Err, count = 0 on Ok
count_after(c, ok) == IF ok THEN 0 ELSE c + 1

\* A loop that takes the strings out of the Vec as it parses them.
tags_drain(tagv) == <<>>

\* tags.iter(): the Vec<String> is borrowed, and is after the parse what it
\* was before it.
tags_iter(tagv) == tagv

\* What client_ws_sender.send() can return: a peer that is gone fails every
\* send, a peer that is there may still fail one.
SendOutcomes(s) == IF clientUp[s] THEN {TRUE, FALSE} ELSE {FALSE}

-----------------------------------------------------------------------------
(* The caching session: client_connection with the collect of the tags     *)
(* moved out of the loop.  Its filter is the Result of one parse, made     *)
(* when the session starts and looked at for every event; everything else  *)
(* is the loop as it is.  It runs beside each session, on the same         *)
(* results of recv() and of send().                                        *)

cached_idle ==
  [filter |-> Ok(<<>>), pc |-> "idle", count |-> 0, cur |-> 0, sent |-> <<>>]

cached_start(tagv) ==
  [filter |-> collect_tags(tagv), pc |-> "recv", count |-> 0, cur |-> 0,
   sent |-> <<>>]

\* The loop body up to the send, with the kept filter f.
cached_on_event(f, e) ==
  IF ~f.ok THEN "closing"
  ELSE IF admits(f.val, e) THEN "send"
  ELSE "recv"

cached_recv(c, r) ==
  IF c.pc # "recv" THEN c
  ELSE LET to == IF r.tag = "Ok" THEN cached_on_event(c.filter, Event(r.ev))
                 ELSE on_recv_err(r) IN
         [c EXCEPT !.pc = to, !.cur = IF to = "send" THEN r.ev ELSE 0]

cached_send(c, ok) ==
  IF c.pc # "send" THEN c
  ELSE [c EXCEPT !.sent = Append(@, [id |-> c.cur, ok |-> ok]),
                 !.count = count_after(@, ok),
                 !.pc = IF threshold(count_after(c.count, ok))
                        THEN "closing" ELSE "recv",
                 !.cur = 0]

cached_close(c) ==
  IF c.pc # "closing" THEN c ELSE [c EXCEPT !.pc = "closed"]

-----------------------------------------------------------------------------
(* Init: the server listens, nothing was sent, nobody is connected. *)

Init ==
  /\ published = <<>>
  /\ chan = <<>>
  /\ producerAlive = TRUE
  /\ pc = [s \in Sessions |-> "idle"]
  /\ tags = [s \in Sessions |-> <<>>]
  /\ rxNext = [s \in Sessions |-> 0]
  /\ count = [s \in Sessions |-> 0]
  /\ cur = [s \in Sessions |-> 0]
  /\ clientUp = [s \in Sessions |-> TRUE]
  /\ query = [s \in Sessions |-> NoTags]
  /\ subAt = [s \in Sessions |-> 0]
  /\ recvd = [s \in Sessions |-> <<>>]
  /\ attempts = [s \in Sessions |-> <<>>]
  /\ lagged = [s \in Sessions |-> FALSE]
  /\ cachedRun = [s \in Sessions |-> cached_idle]

-----------------------------------------------------------------------------
(* Actions *)

\* A send on a bounded queue: it waits while a receiver has a full buffer.
send_bounded(k) ==
  /\ \A s \in Sessions : pc[s] \in Running => ChanTail - rxNext[s] < BufCap
  /\ published' = Append(published, k)
  /\ chan' = IF ReceiverCount > 0 THEN Append(chan, Len(published) + 1) ELSE chan
  /\ UNCHANGED <<cachedRun, producerAlive, pc, tags, rxNext, count, cur, clientUp,
                 query, subAt, recvd, attempts, lagged>>

\* broadcast::Sender::send(event of kind k): the channel stores the event
\* only when some receiver is subscribed.
send(k) ==
  /\ published' = Append(published, k)
  /\ chan' = IF ReceiverCount > 0 THEN Append(chan, Len(published) + 1) ELSE chan
  /\ UNCHANGED <<cachedRun, producerAlive, pc, tags, rxNext, count, cur, clientUp,
                 query, subAt, recvd, attempts, lagged>>

\* The producer sends an event of kind k.
Publish(k) ==
  /\ producerAlive
  /\ Len(published) < MaxPublish
  /\ send(k)

\* The producer of the long run sends an event of kind A.
PublishLong ==
  /\ producerAlive
  /\ Len(published) < MaxLongPublish
  /\ send("A")

\* The producer drops its Sender.
DropProducer ==
  /\ producerAlive
  /\ producerAlive' = FALSE
  /\ UNCHANGED <<cachedRun, published, chan, pc, tags, rxNext, count, cur, clientUp,
                 query, subAt, recvd, attempts, lagged>>

\* ws_handler / client_connection up to the loop: the listener accepts a
\* connection with query q; the session splits the socket, subscribes and
\* sets count to 0.  Sessions are numbered in the order they connect.
Connect(s, q) ==
  /\ pc[s] = "idle"
  /\ \A t \in Sessions : t < s => pc[t] # "idle"
  /\ query' = [query EXCEPT ![s] = q]
  /\ tags' = [tags EXCEPT ![s] = parse_query(q)]
  /\ rxNext' = [rxNext EXCEPT ![s] = subscribe]
  /\ subAt' = [subAt EXCEPT ![s] = Len(published)]
  /\ count' = [count EXCEPT ![s] = 0]
  /\ pc' = [pc EXCEPT ![s] = "recv"]
  /\ cachedRun' = [cachedRun EXCEPT ![s] = cached_start(parse_query(q))]
  /\ UNCHANGED <<published, chan, producerAlive, cur, clientUp, recvd,
                 attempts, lagged>>

\* A recv() on one receiver that all the sessions share: what one session
\* reads is read for all.
Recv_shared(s) ==
  /\ pc[s] = "recv"
  /\ LET r == recv(s) IN
       /\ r.tag # "Pending"
       /\ rxNext' = [t \in Sessions |-> IF pc[t] \in Running THEN rx_after(s, r) ELSE rxNext[t]]
       /\ lagged' = [lagged EXCEPT ![s] = @ \/ r.tag = "Lagged"]
       /\ recvd' = [recvd EXCEPT ![s] = IF r.tag = "Ok" THEN Append(@, r.ev) ELSE @]
       /\ LET to == IF r.tag = "Ok" THEN on_event(tags[s], Event(r.ev))
                    ELSE on_recv_err(r) IN
            /\ pc' = [pc EXCEPT ![s] = to]
            /\ cur' = [cur EXCEPT ![s] = IF to = "send" THEN r.ev ELSE 0]
       /\ tags' = [tags EXCEPT ![s] = IF r.tag = "Ok" THEN tags_iter(@) ELSE @]
       /\ cachedRun' = [cachedRun EXCEPT ![s] = cached_recv(@, r)]
  /\ UNCHANGED <<published, chan, producerAlive, count, clientUp,
                 query, subAt, attempts>>

\* ws_rx.recv().await returns, and the loop runs up to its next await.
Recv(s) ==
  /\ pc[s] = "recv"
  /\ LET r == recv(s) IN
       /\ r.tag # "Pending"
       /\ rxNext' = [rxNext EXCEPT ![s] = rx_after(s, r)]
       /\ lagged' = [lagged EXCEPT ![s] = @ \/ r.tag = "Lagged"]
       /\ recvd' = [recvd EXCEPT ![s] = IF r.tag = "Ok" THEN Append(@, r.ev) ELSE @]
       /\ LET to == IF r.tag = "Ok" THEN on_event(tags[s], Event(r.ev))
                    ELSE on_recv_err(r) IN
            /\ pc' = [pc EXCEPT ![s] = to]
            /\ cur' = [cur EXCEPT ![s] = IF to = "send" THEN r.ev ELSE 0]
       /\ tags' = [tags EXCEPT ![s] = IF r.tag = "Ok" THEN tags_iter(@) ELSE @]
       /\ cachedRun' = [cachedRun EXCEPT ![s] = cached_recv(@, r)]
  /\ UNCHANGED <<published, chan, producerAlive, count, clientUp,
                 query, subAt, attempts>>

\* client_ws_sender.send(..).await returns ok; count and the threshold test.
Send(s) ==
  /\ pc[s] = "send"
  /\ \E ok \in SendOutcomes(s) :
       /\ attempts' = [attempts EXCEPT ![s] =
                         Append(@, [id |-> cur[s], kind |-> published[cur[s]],
                                    ok |-> ok, up |-> clientUp[s]])]
       /\ count' = [count EXCEPT ![s] = count_after(@, ok)]
       /\ pc' = [pc EXCEPT ![s] =
                   IF threshold(count_after(count[s], ok)) THEN "closing" ELSE "recv"]
       /\ cachedRun' = [cachedRun EXCEPT ![s] = cached_send(@, ok)]
  /\ cur' = [cur EXCEPT ![s] = 0]
  /\ UNCHANGED <<published, chan, producerAlive, tags, rxNext, clientUp,
                 query, subAt, recvd, lagged>>

\* A session that reconnects by itself: after the loop it starts again.
Close_restart(s) ==
  /\ pc[s] = "closing"
  /\ pc' = [pc EXCEPT ![s] = "recv"]
  /\ cachedRun' = [cachedRun EXCEPT ![s] = cached_close(@)]
  /\ UNCHANGED <<published, chan, producerAlive, tags, rxNext, count, cur,
                 clientUp, query, subAt, recvd, attempts, lagged>>

\* The loop is left: "Disconnected" is printed and the function returns,
\* dropping the socket half, ws_rx and ws_tx.
Close(s) ==
  /\ pc[s] = "closing"
  /\ pc' = [pc EXCEPT ![s] = "closed"]
  /\ cachedRun' = [cachedRun EXCEPT ![s] = cached_close(@)]
  /\ UNCHANGED <<published, chan, producerAlive, tags, rxNext, count, cur,
                 clientUp, query, subAt, recvd, attempts, lagged>>

\* The peer of a running session goes away.
Disconnect(s) ==
  /\ pc[s] \in {"recv", "send"}
  /\ clientUp[s]
  /\ clientUp' = [clientUp EXCEPT ![s] = FALSE]
  /\ UNCHANGED <<cachedRun, published, chan, producerAlive, pc, tags, rxNext, count,
                 cur, query, subAt, recvd, attempts, lagged>>

Next ==
  \/ \E k \in Kinds : Publish(k)
  \/ DropProducer
  \/ \E s \in Sessions, q \in QueryParams : Connect(s, q)
  \/ \E s \in Sessions : Recv(s)
  \/ \E s \in Sessions : Send(s)
  \/ \E s \in Sessions : Close(s)
  \/ \E s \in Sessions : Disconnect(s)

Spec == Init /\ [][Next]_vars

\* Each session is a task of the tokio runtime: a session whose await can
\* return is eventually polled.  Nothing makes the producer send or a peer
\* leave.
Fairness ==
  \A s \in Sessions :
    WF_vars(Recv(s)) /\ WF_vars(Send(s)) /\ WF_vars(Close(s))

FairSpec == Spec /\ Fairness

\* The long run of one session: one connection, a producer of A events.
LongNext ==
  \/ PublishLong
  \/ DropProducer
  \/ \E q \in QueryParams : Connect(1, q)
  \/ Recv(1)
  \/ Send(1)
  \/ Close(1)
  \/ Disconnect(1)

LongSpec == Init /\ [][LongNext]_vars

LongFairSpec == LongSpec /\ Fairness

-----------------------------------------------------------------------------
(* Vocabulary of the properties *)

Active(s) == pc[s] \in {"recv", "send"}
Left(s) == pc[s] \in {"closing", "closed"}

\* The tag list has a tag the Discriminant parser rejects.
HasRejectedTag(s) == \E i \in 1..Len(tags[s]) : ~from_str(tags[s][i]).ok

\* The discriminants the tags name.
Named(s) == {from_str(tags[s][i]).val : i \in {j \in 1..Len(tags[s]) : from_str(tags[s][j]).ok}}

\* A filter set F that is valid and not empty / valid and empty.
Filtered(s) == pc[s] # "idle" /\ ~HasRejectedTag(s) /\ tags[s] # <<>>
Unfiltered(s) == pc[s] # "idle" /\ tags[s] = <<>>

RECURSIVE OkIds(_)
OkIds(atts) ==
  IF atts = <<>> THEN <<>>
  ELSE IF Head(atts).ok THEN <<Head(atts).id>> \o OkIds(Tail(atts))
  ELSE OkIds(Tail(atts))

\* The events a session delivered, and those it tried to.
Delivered(s) == OkIds(attempts[s])
Tried(s) == [i \in 1..Len(attempts[s]) |-> attempts[s][i].id]

\* The ids from..to in order.
Ids(from, to) == [i \in 1..(to - from + 1) |-> from + i - 1]

\* The events sent by the producer since s subscribed.
SinceSubscribe(s) == Ids(subAt[s] + 1, Len(published))

-----------------------------------------------------------------------------
(* C1: a connection with a valid, non-empty filter set F is only ever sent *)
(* events whose discriminant is in F: every send it made, and the one it   *)
(* is making, carries such an event.                                       *)
C1_OnlyFilteredKinds ==
  \A s \in Sessions :
    Filtered(s) =>
      /\ \A i \in 1..Len(attempts[s]) : attempts[s][i].kind \in Named(s)
      /\ cur[s] # 0 => published[cur[s]] \in Named(s)

\* A filtered session received an event outside F and sent one inside F.
C1_Witness ==
  \E s \in Sessions :
    /\ Filtered(s)
    /\ \E i \in 1..Len(recvd[s]) : published[recvd[s][i]] \notin Named(s)
    /\ \E i \in 1..Len(attempts[s]) : attempts[s][i].ok

(* C2 as stated: an unfiltered connection that has read everything sent    *)
(* since it subscribed has delivered each of those events once, in order.  *)
C2_EveryEventDelivered ==
  \A s \in Sessions :
    (Unfiltered(s) /\ pc[s] = "recv" /\ recv(s).tag = "Pending") =>
      Delivered(s) = SinceSubscribe(s)

(* C2, amended: an unfiltered connection receives the events sent since it *)
(* subscribed in send order without a gap, tries to send each received     *)
(* event exactly once in that order, and has delivered exactly the events  *)
(* whose send succeeded; once it has read everything without lagging, it   *)
(* has tried every event sent since it subscribed.                         *)
C2_EveryEventTriedOnce ==
  \A s \in Sessions :
    Unfiltered(s) =>
      /\ recvd[s] = Ids(subAt[s] + 1, subAt[s] + Len(recvd[s]))
      /\ recvd[s] = (IF cur[s] # 0 THEN Append(Tried(s), cur[s]) ELSE Tried(s))
      /\ (pc[s] = "recv" /\ recv(s).tag = "Pending") => Tried(s) = SinceSubscribe(s)

\* An unfiltered session with a failed send between two delivered events.
C2_Witness ==
  \E s \in Sessions :
    /\ Unfiltered(s)
    /\ Len(attempts[s]) = 3
    /\ attempts[s][1].ok /\ ~attempts[s][2].ok /\ attempts[s][3].ok
    /\ Len(Delivered(s)) = 2

(* C3: a connection whose tag list has a tag the parser rejects is never   *)
(* sent anything, whatever its other tags and whatever is published.       *)
C3_RejectedTagSendsNothing ==
  \A s \in Sessions :
    (pc[s] # "idle" /\ HasRejectedTag(s)) => attempts[s] = <<>> /\ cur[s] = 0

\* A session with a valid and a rejected tag received an event the valid
\* tag names.
C3_Witness ==
  \E s \in Sessions :
    /\ HasRejectedTag(s)
    /\ Named(s) # {}
    /\ \E i \in 1..Len(recvd[s]) : published[recvd[s][i]] \in Named(s)
    /\ pc[s] = "closed"

-----------------------------------------------------------------------------
(* C4 as stated: a connection whose tag list has a rejected tag reaches    *)
(* Closed in every execution, also when nothing is published after it      *)
(* connected.                                                              *)
C4_RejectedTagCloses ==
  \A s \in Sessions : (pc[s] = "recv" /\ HasRejectedTag(s)) ~> (pc[s] = "closed")

\* The failed sends at the end of the sends.
RECURSIVE TrailingFails(_)
TrailingFails(atts) ==
  IF atts = <<>> \/ atts[Len(atts)].ok THEN 0
  ELSE 1 + TrailingFails(SubSeq(atts, 1, Len(atts) - 1))

(* C5: count is the number of consecutive failed sends; a session is       *)
(* Active while that number is below 10 and leaves the loop on the send    *)
(* that makes it 10; after a successful send it is 0 and the session is    *)
(* still Active, whatever number of failures came before.                  *)
C5_ClosesOnTenthFailure ==
  \A s \in Sessions :
    (pc[s] # "idle" /\ ~HasRejectedTag(s) /\ ~lagged[s]) =>
      /\ count[s] = TrailingFails(attempts[s])
      /\ Left(s) <=> TrailingFails(attempts[s]) = MaxFails
      /\ Active(s) => count[s] < MaxFails

\* Nine failed sends and then a successful one: Active, count 0.
C5_Witness ==
  \E s \in Sessions :
    /\ Len(attempts[s]) = MaxFails
    /\ \A i \in 1..(MaxFails - 1) : ~attempts[s][i].ok
    /\ attempts[s][MaxFails].ok
    /\ pc[s] = "recv" /\ count[s] = 0

(* C6 as stated: a tags parameter that is absent or empty gives an empty   *)
(* tag list, and the connection is sent every event published while it is *)
(* connected.                                                              *)
C6_AbsentOrEmptyIsUnfiltered ==
  \A s \in Sessions :
    (pc[s] # "idle" /\ (~query[s].some \/ query[s].val = <<>>)) =>
      /\ tags[s] = <<>>
      /\ (pc[s] = "recv" /\ recv(s).tag = "Pending") => Tried(s) = SinceSubscribe(s)

(* C7 as stated: once the producer has dropped its Sender, every Active    *)
(* session is told so by its receiver and reaches Closed.                  *)
C7_ProducerGoneCloses ==
  \A s \in Sessions : (~producerAlive /\ Active(s)) ~> (pc[s] = "closed")

(* C8 as stated: once the peer has disconnected, the session reaches       *)
(* Closed.                                                                 *)
C8_DisconnectCloses ==
  \A s \in Sessions : (~clientUp[s]) ~> (pc[s] = "closed")

\* The sends made after the peer left.
DownSends(s) == {i \in 1..Len(attempts[s]) : ~attempts[s][i].up}

(* C8, amended: once the peer has disconnected every send fails, and the   *)
(* session has left the loop by its 10th send after the disconnect: it     *)
(* makes no 11th.  (Without an admitted event to send it stays Active.)    *)
C8_DisconnectClosesWithinTenSends ==
  \A s \in Sessions :
    /\ \A i \in DownSends(s) : ~attempts[s][i].ok
    /\ Cardinality(DownSends(s)) <= MaxFails
    /\ Cardinality(DownSends(s)) = MaxFails => Left(s)
    /\ (~clientUp[s] /\ Active(s)) => count[s] >= Cardinality(DownSends(s))

\* A session that delivered an event, lost its peer and was closed by the
\* ten sends it made afterwards.
C8_Witness ==
  \E s \in Sessions :
    /\ ~clientUp[s]
    /\ Cardinality(DownSends(s)) = MaxFails
    /\ Len(Delivered(s)) > 0
    /\ pc[s] = "closed"

(* C9 as stated: a session with a valid filter leaves Active only through  *)
(* 10 consecutive failed sends, a disconnect of its peer or the producer   *)
(* going away.                                                             *)
C9_ClosedOnlyByFailures ==
  [][\A s \in Sessions :
       (~HasRejectedTag(s) /\ Active(s) /\ ~Active(s)') =>
         (count'[s] = MaxFails \/ ~clientUp[s] \/ ~producerAlive)]_vars

(* C9, amended: a session with a valid filter leaves Active only on the    *)
(* send that is its 10th consecutive failure or on a recv() that returns   *)
(* Lagged, that is when it has fallen more than the capacity of the        *)
(* channel behind the producer.                                            *)
C9_ClosedOnlyByFailuresOrLag ==
  [][\A s \in Sessions :
       (~HasRejectedTag(s) /\ Active(s) /\ ~Active(s)') =>
         \/ pc[s] = "send" /\ count'[s] = MaxFails /\ count[s] = MaxFails - 1
         \/ pc[s] = "recv" /\ recv(s).tag = "Lagged"]_vars

\* A session none of whose sends failed, with its peer there and the
\* producer alive, closed for lagging.
C9_Witness ==
  \E s \in Sessions :
    /\ ~HasRejectedTag(s)
    /\ clientUp[s] /\ producerAlive
    /\ attempts[s] # <<>> /\ \A i \in 1..Len(attempts[s]) : attempts[s][i].ok
    /\ lagged[s] /\ pc[s] = "closed"

(* C10: the recv() that returns Lagged takes the session out of its loop,  *)
(* and a session that lagged receives and sends nothing afterwards.        *)
C10_LagIsFatal ==
  [][\A s \in Sessions :
       /\ (pc[s] = "recv" /\ recv(s).tag = "Lagged" /\ rxNext'[s] # rxNext[s])
            => (lagged'[s] /\ pc'[s] = "closing")
       /\ lagged[s] =>
            /\ pc[s] \in {"closing", "closed"} /\ pc'[s] \in {"closing", "closed"}
            /\ attempts'[s] = attempts[s] /\ recvd'[s] = recvd[s] /\ cur'[s] = 0]_vars

\* A closed session that lagged with events it would have been sent still
\* in the channel.
C10_Witness ==
  \E s \in Sessions :
    /\ lagged[s] /\ pc[s] = "closed"
    /\ Unfiltered(s)
    /\ rxNext[s] < ChanTail
    /\ Len(Delivered(s)) > 0

(* C11: a session is never sent an event the producer sent before the      *)
(* session subscribed: every event it received, sent or is sending was     *)
(* sent by the producer after its subscribe.                               *)
C11_NoReplay ==
  \A s \in Sessions :
    /\ \A i \in 1..Len(recvd[s]) : recvd[s][i] > subAt[s]
    /\ \A i \in 1..Len(attempts[s]) : attempts[s][i].id > subAt[s]
    /\ cur[s] # 0 => cur[s] > subAt[s]

\* A session that subscribed while the channel still retained an earlier
\* event it would admit, and that delivered a later one.
C11_Witness ==
  \E s \in Sessions :
    /\ Unfiltered(s)
    /\ subAt[s] > 0 /\ \E p \in 1..Len(chan) : chan[p] = subAt[s]
    /\ Len(Delivered(s)) > 0

InChan == {chan[p] : p \in 1..Len(chan)}

(* C13: the producer can send whenever it is alive, however far behind     *)
(* the sessions are and whatever they are waiting for; every event it      *)
(* sends while a session runs enters the channel, and a session waiting in *)
(* recv() with an event ahead of it can take its step.                     *)
C13_PublishNeverWaits ==
  /\ (producerAlive /\ Len(published) < MaxPublish) => \A k \in Kinds : ENABLED Publish(k)
  /\ \A s \in Sessions :
       /\ pc[s] \in Running => \A i \in (subAt[s] + 1)..Len(published) : i \in InChan
       /\ (pc[s] = "recv" /\ rxNext[s] < ChanTail) => ENABLED Recv(s)

\* A session is in a send and more than the capacity behind, and another
\* session has received an event sent after the one it is sending.
C13_Witness ==
  \E s, t \in Sessions :
    /\ pc[s] = "send" /\ ChanTail - rxNext[s] > BufCap
    /\ pc[t] = "recv" /\ recvd[t] # <<>>
    /\ recvd[t][Len(recvd[t])] > cur[s]

\* The session's filter, read off its tags, admits the event with this id.
Wants(s, id) == tags[s] = <<>> \/ published[id] \in Named(s)

RECURSIVE WantedOf(_, _)
WantedOf(s, ids) ==
  IF ids = <<>> THEN <<>>
  ELSE IF Wants(s, Head(ids)) THEN <<Head(ids)>> \o WantedOf(s, Tail(ids))
  ELSE WantedOf(s, Tail(ids))

(* C14: for a session with a valid filter, the sends it made, followed by  *)
(* the one it is making, are exactly the received events its filter        *)
(* admits, one send per event in the order received: none is skipped,      *)
(* none is sent twice (not after a failed send either), and a send carries *)
(* one event.                                                              *)
C14_OneSendPerAdmittedEvent ==
  \A s \in Sessions :
    (pc[s] # "idle" /\ ~HasRejectedTag(s)) =>
      (IF cur[s] # 0 THEN Append(Tried(s), cur[s]) ELSE Tried(s)) = WantedOf(s, recvd[s])

\* A filtered session whose send of an admitted event failed and that then
\* received an event it does not admit: one send, two events received.
C14_Witness ==
  \E s \in Sessions :
    /\ Filtered(s)
    /\ Len(recvd[s]) = 2 /\ Len(attempts[s]) = 1
    /\ ~attempts[s][1].ok /\ attempts[s][1].id = recvd[s][1]
    /\ pc[s] = "recv"

(* C15: when an Active session with a valid filter receives an event its   *)
(* filter does not admit, it stays in the loop waiting for the next event, *)
(* sends nothing, and count keeps its value.                               *)
C15_UnadmittedEventChangesNothing ==
  [][\A s \in Sessions :
       (/\ pc[s] = "recv" /\ ~HasRejectedTag(s)
        /\ recv(s).tag = "Ok" /\ ~Wants(s, recv(s).ev)
        /\ rxNext'[s] # rxNext[s])
       => /\ pc'[s] = "recv" /\ cur'[s] = 0
          /\ attempts'[s] = attempts[s]
          /\ count'[s] = count[s]]_vars

\* A session with one failed send counted that received an event it does
\* not admit and is still where it was.
C15_Witness ==
  \E s \in Sessions :
    /\ Filtered(s)
    /\ count[s] = 1 /\ Len(attempts[s]) = 1
    /\ recvd[s] # <<>> /\ ~Wants(s, recvd[s][Len(recvd[s])])
    /\ pc[s] = "recv"

\* The send that session s just finished, in the step taken, was ok.
JustSent(s) == Len(attempts'[s]) = Len(attempts[s]) + 1
JustSentOk(s) == JustSent(s) /\ attempts'[s][Len(attempts'[s])].ok

(* C16: count starts at 0 and stays within 0..10; a failed send adds       *)
(* exactly 1 to it, a successful send makes it 0, and no other step        *)
(* changes it: it never goes down except to 0.                             *)
C16_CounterSteps ==
  /\ \A s \in Sessions : count[s] = 0
  /\ [][\A s \in Sessions :
          /\ count'[s] \in 0..MaxFails
          /\ JustSent(s) =>
               count'[s] = (IF JustSentOk(s) THEN 0 ELSE count[s] + 1)
          /\ ~JustSent(s) => count'[s] = count[s]]_vars

\* Two failed sends, a successful one and a failed one: count went
\* 1, 2, 0, 1.
C16_Witness ==
  \E s \in Sessions :
    /\ Len(attempts[s]) = 4
    /\ ~attempts[s][1].ok /\ ~attempts[s][2].ok
    /\ attempts[s][3].ok /\ ~attempts[s][4].ok
    /\ count[s] = 1

\* Session s leaves its loop, or returns, in the step taken.
Closes(s) ==
  \/ Active(s) /\ Left(s)'
  \/ pc[s] = "closing" /\ pc'[s] = "closed"

\* What belongs to session t, and what the channel and the producer hold.
OfSession(t) ==
  <<pc[t], tags[t], rxNext[t], count[t], cur[t], clientUp[t], query[t],
    subAt[t], recvd[t], attempts[t], lagged[t]>>
OfHub == <<published, chan, producerAlive>>

C18_ClosedIsTerminal ==
  [][\A s \in Sessions :
       Left(s) =>
         /\ Left(s)'
         /\ recvd'[s] = recvd[s]
         /\ rxNext'[s] = rxNext[s]
         /\ attempts'[s] = attempts[s]]_vars

\* A session is closed while the channel holds an event it has not read,
\* and that event was sent on to another session.
C18_Witness ==
  \E s, t \in Sessions :
    /\ pc[s] = "closed"
    /\ rxNext[s] < ChanTail
    /\ \E i \in 1..Len(attempts[t]) :
         /\ attempts[t][i].id > subAt[s]
         /\ \A j \in 1..Len(recvd[s]) : attempts[t][i].id > recvd[s][j]

\* The sends of session s, as the caching session records its own.
SentOf(s) ==
  [i \in 1..Len(attempts[s]) |-> [id |-> attempts[s][i].id, ok |-> attempts[s][i].ok]]

(* C19: for a connected session, parsing its tags now gives the filter     *)
(* that the parse at the start of the session gave, and the caching        *)
(* session run beside it on the same events and send results is where the  *)
(* session is: same place in the loop (so the same closing point), same    *)
(* count, same event in hand and same sends with the same results.         *)
C19_CachedFilterEquivalent ==
  \A s \in Sessions :
    pc[s] # "idle" =>
      /\ collect_tags(tags[s]) = cachedRun[s].filter
      /\ cachedRun[s].pc = pc[s]
      /\ cachedRun[s].count = count[s]
      /\ cachedRun[s].cur = cur[s]
      /\ cachedRun[s].sent = SentOf(s)

\* A session with a filter of its own has parsed its tags for two events
\* or more, sent one of them and passed over another.
C19_Witness ==
  \E s \in Sessions :
    /\ pc[s] = "recv"
    /\ Filtered(s)
    /\ Len(recvd[s]) >= 2
    /\ Len(attempts[s]) >= 1
    /\ Len(attempts[s]) < Len(recvd[s])

\* Session s is in recv().await and the channel has nothing for it.
Waiting(s) == pc[s] = "recv" /\ recv(s).tag = "Pending"

(* C20: a step takes a session out of Active only when it is a recv() that *)
(* returned an event to a session whose tags do not parse, a recv() that   *)
(* returned Lagged or Closed, or the failed send of a received event that  *)
(* brings count to 10; and no step of anyone takes a session that waits    *)
(* in recv() with nothing to receive out of that recv().                   *)
C20_LeavesOnlyOnReceive ==
  [][\A s \in Sessions :
       /\ (Active(s) /\ ~Active(s)') =>
            \/ /\ pc[s] = "recv"
               /\ recv(s).tag = "Ok"
               /\ recvd'[s] = Append(recvd[s], recv(s).ev)
               /\ HasRejectedTag(s)
            \/ /\ pc[s] = "recv"
               /\ recv(s).tag \in {"Lagged", "Closed"}
            \/ /\ pc[s] = "send"
               /\ cur[s] = recvd[s][Len(recvd[s])]
               /\ JustSent(s) /\ ~JustSentOk(s)
               /\ count'[s] = MaxFails
       /\ Waiting(s) => pc'[s] = "recv"]_vars

\* A session waits in recv() after failed sends, its peer gone and the
\* producer gone: nothing more will be sent to it, and it is Active.
C20_Witness ==
  \E s \in Sessions :
    /\ Waiting(s)
    /\ ~producerAlive
    /\ ~clientUp[s]
    /\ count[s] > 0
    /\ count[s] = TrailingFails(attempts[s])

====
